---- MODULE Spec2Model ----
(***************************************************************************)
(* Model of the /products aggregation handler of otel-go-app-sample        *)
(* (package utils, src/unnamed/part_000) together with the dependent       *)
(* service endpoint HandleSlowAPI (src/otelsetup/func_handler.go) and the  *)
(* otelhttp wrapper installed by main (src/unnamed/part_001).              *)
(*                                                                         *)
(* Every request r runs GetProductsHandler on its own goroutine; the       *)
(* handler spawns one more goroutine for the dependent call.  hpc[r] is    *)
(* the handler's position, gpc[r] the spawned goroutine's.  log[r] is the  *)
(* history of what the request's handler did (span operations, calls,      *)
(* returns, the go statement, channel operations), in the order it did it. *)
(*                                                                         *)
(* ServerSpec follows main from its start to the end of the process and    *)
(* the GET / requests it serves (otelsetup.HandleRequest, DatabaseCall,    *)
(* ExternalAPICall, src/otelsetup); FetchSpec is one call of               *)
(* GetAllProducts on every store it may find.                              *)
(***************************************************************************)
EXTENDS Integers, Sequences, FiniteSets, TLC

\* ------------------------------------------------------------------ bounds
NumReq == 2
MaxRows == 2
MaxTime == 2

Req == 1..NumReq
Times == 1..MaxTime

\* ------------------------------------------------------- program constants
StatusOK == 200
StatusBadRequest == 400
StatusInternalServerError == 500

\* rand.Float32() < 0.2 and rand.Float32() < 0.3: the draw either fails the
\* stage or not; the probabilities themselves play no part in what is reachable.
FailDraws == BOOLEAN

\* ------------------------------------------------------------ store rows
\* A row of "SELECT id, name, quantity, price FROM products": the columns in
\* the order of the query.
AllRows == <<
    <<1, "bolt", 5, 10>>,
    <<2, "nut", 7, 20>>,
    <<3, "gear", 9, 30>> >>

\* What the table may hold when a request reads it: nothing, or MaxRows rows.
Tables == {<<>>, SubSeq(AllRows, 1, MaxRows)}

\* rows.Scan(&p.ID, &p.Name, &p.Quantity, &p.Price): columns by position.
Scan(row) ==
    [ID |-> row[1], Name |-> row[2], Quantity |-> row[3], Price |-> row[4]]

\* A Go slice: the nil slice, or a non-nil one with its elements.
NilSlice == [isNil |-> TRUE, elems |-> <<>>]

\* append(products, p)
AppendSlice(s, p) == [isNil |-> FALSE, elems |-> Append(s.elems, p)]

\* ---------------------------------------------------------------- events
\* One entry of a request's history.
Ev(ev, name, key, str, n) ==
    [ev |-> ev, name |-> name, key |-> key, str |-> str, n |-> n]

\* The span carried by r.Context(): the one otelhttp.NewHandler started.
RootSpan == "http.server.request"

\* StartSpan from context.Background() instead of ctx: the span has no parent
StartSpan_Detached(ctxSpan, name) == Ev("Start", name, "parent", "", 0)

\* tracer.Start(ctx, name): the new span's parent is the span in ctx ("" when
\* ctx carries none).
StartSpan(ctxSpan, name) == Ev("Start", name, "parent", ctxSpan, 0)

\* span.End()
EndSpan(name) == Ev("End", name, "", "", 0)

\* span.SetAttributes(attribute.String(key, str))
SetAttrString(name, key, str) == Ev("SetAttr", name, key, str, 0)

\* span.SetAttributes(attribute.Int(key, n))
SetAttrInt(name, key, n) == Ev("SetAttr", name, key, "", n)

\* A function of the request being entered / returning (err = "" is nil).
Call(name) == Ev("call", name, "", "", 0)
Return(name, err) == Ev("return", name, "err", err, 0)

\* -------------------------------------------------------- error messages
NoErr == ""
ErrValidation == "request validation failed"
ErrNotInitialized == "database connection not initialized; call InitDB first"
ErrQuery == "error querying products: <driver error>"
ErrScan == "error scanning product row: <driver error>"
ErrIter == "error iterating over product rows: <driver error>"
ErrProcess == "data processing failed"
ErrEncode == "<encode error>"


\* ----------------------------------------------------------- store fetch
\* What can go wrong with the store while one fetch runs: nothing, the query
\* itself, the scan of row `at`, or the cursor after `at` rows.
NoFault == [kind |-> "none", at |-> 0]

Faults(rows) ==
    {NoFault, [kind |-> "query", at |-> 0]}
        \cup {[kind |-> "scan", at |-> k] : k \in 1..Len(rows)}
        \cup {[kind |-> "iter", at |-> k] : k \in 0..Len(rows)}

\* for rows.Next() { rows.Scan(...); products = append(products, p) } from row
\* i on: the slice built, and how the loop ended.
RECURSIVE ScanLoop(_, _, _, _)
ScanLoop(rows, i, acc, fault) ==
    IF i > Len(rows) \/ (fault.kind = "iter" /\ i > fault.at)
    THEN [products |-> acc, scanErr |-> FALSE]
    ELSE IF fault.kind = "scan" /\ fault.at = i
         THEN [products |-> acc, scanErr |-> TRUE]
         ELSE ScanLoop(rows, i + 1, AppendSlice(acc, Scan(rows[i])), fault)

\* The call of GetAllProducts, which finds the handle DB as `db`
CallFetch(db) == Ev("call", "GetAllProducts", "DB", db, 0)

\* DB.QueryContext(ctx, query): the store is asked
QueryStore == Ev("query", "DB", "", "", 0)

\* QueryProducts returning what the loop had built when a scan or the cursor
\* fails
QueryProducts_Partial(ctxSpan, db, rows, fault) ==
    LET name == "GetAllProducts"
        start == <<CallFetch(db), StartSpan(ctxSpan, name), QueryStore>>
        loop == ScanLoop(rows, 1, NilSlice, fault)
        fail(attr, err) ==
            [products |-> loop.products, err |-> err,
             events |-> start \o <<SetAttrString(name, "error", attr),
                                   EndSpan(name), Return(name, err)>>]
    IN  IF fault.kind = "query" THEN fail("<driver error>", ErrQuery)
        ELSE IF loop.scanErr THEN fail("<driver error>", ErrScan)
        ELSE IF fault.kind = "iter" THEN fail("<driver error>", ErrIter)
        ELSE [products |-> loop.products, err |-> NoErr,
              events |-> start \o
                  <<SetAttrInt(name, "product_count", Len(loop.products.elems)),
                    EndSpan(name), Return(name, NoErr)>>]

\* GetAllProducts from its query on (DB is not nil): the query, the row loop,
\* rows.Err(), and what it returns.
QueryProducts(ctxSpan, db, rows, fault) ==
    LET name == "GetAllProducts"
        start == <<CallFetch(db), StartSpan(ctxSpan, name), QueryStore>>
        loop == ScanLoop(rows, 1, NilSlice, fault)
        fail(attr, err) ==
            [products |-> NilSlice, err |-> err,
             events |-> start \o <<SetAttrString(name, "error", attr),
                                   EndSpan(name), Return(name, err)>>]
    IN  IF fault.kind = "query" THEN fail("<driver error>", ErrQuery)
        ELSE IF loop.scanErr THEN fail("<driver error>", ErrScan)
        ELSE IF fault.kind = "iter" THEN fail("<driver error>", ErrIter)
        ELSE [products |-> loop.products, err |-> NoErr,
              events |-> start \o
                  <<SetAttrInt(name, "product_count", Len(loop.products.elems)),
                    EndSpan(name), Return(name, NoErr)>>]

\* GetAllProducts without its `if DB == nil` check: the query on a nil *sql.DB
\* panics (the deferred span.End() runs, nothing is returned).
GetAllProducts_NoNilCheck(ctxSpan, db, rows, fault) ==
    IF db = "nil"
    THEN [products |-> NilSlice, err |-> "panic: nil pointer dereference",
          events |-> <<CallFetch(db), StartSpan(ctxSpan, "GetAllProducts"),
                       QueryStore, EndSpan("GetAllProducts"),
                       Ev("panic", "GetAllProducts", "", "", 0)>>]
    ELSE QueryProducts(ctxSpan, db, rows, fault)

\* GetAllProducts(ctx): what it returns and what it does to its span, in order.
\* db is the DB handle ("nil" or "open").
GetAllProducts(ctxSpan, db, rows, fault) ==
    IF db = "nil"
    THEN [products |-> NilSlice, err |-> ErrNotInitialized,
          events |->
              <<CallFetch(db), StartSpan(ctxSpan, "GetAllProducts"),
                SetAttrString("GetAllProducts", "error", "database not initialized"),
                EndSpan("GetAllProducts"),          \* the explicit span.End()
                EndSpan("GetAllProducts"),          \* the deferred span.End()
                Return("GetAllProducts", ErrNotInitialized)>>]
    ELSE QueryProducts(ctxSpan, db, rows, fault)

\* validateRequest(ctx) with the draw `fail`
validateRequest(ctxSpan, fail) ==
    LET name == "validateRequest"
        start == <<Call(name), StartSpan(ctxSpan, name)>>
    IN  IF fail
        THEN [err |-> ErrValidation,
              events |-> start \o
                  <<SetAttrString(name, "error", "validation failed"),
                    EndSpan(name), Return(name, ErrValidation)>>]
        ELSE [err |-> NoErr,
              events |-> start \o <<EndSpan(name), Return(name, NoErr)>>]

\* processData(ctx, products) with the draw `fail`
processData(ctxSpan, products, fail) ==
    LET name == "processData"
        start == <<Call(name), StartSpan(ctxSpan, name)>>
    IN  IF fail
        THEN [status |-> "failed", err |-> ErrProcess,
              events |-> start \o
                  <<SetAttrString(name, "error", "processing failed"),
                    EndSpan(name), Return(name, ErrProcess)>>]
        ELSE [status |-> "success", err |-> NoErr,
              events |-> start \o
                  <<SetAttrInt(name, "processed_count", Len(products.elems)),
                    EndSpan(name), Return(name, NoErr)>>]

\* ------------------------------------------------------- response writers
\* The JSON null / array a Go slice encodes to: a nil slice is null.
JsonNull == [isNull |-> TRUE, items |-> <<>>]

NoJson ==
    [products |-> JsonNull, slow_status |-> 0, slow_message |-> <<>>,
     process_status |-> ""]

\* One write to a response body.  Text: fmt.Sprintf's prefix, the error's own
\* text and (for the dependent service) the time printed.  Json: an object.
Text(prefix, err, at) ==
    [kind |-> "text", prefix |-> prefix, err |-> err, at |-> at, json |-> NoJson]

Json(obj) ==
    [kind |-> "json", prefix |-> "", err |-> "", at |-> 0, json |-> obj]

\* An http.ResponseWriter before anything was written / httptest.NewRecorder()
\* (whose Code starts at 200).  contentType is the header map's entry,
\* sentContentType what went out with the status line.
NewWriter(code) ==
    [wroteHeader |-> FALSE, status |-> code, contentType |-> "",
     sentContentType |-> "", body |-> <<>>]

\* w.WriteHeader(code): only the first call counts, later ones are ignored.
WriteHeader(wr, code) ==
    IF wr.wroteHeader
    THEN wr
    ELSE [wr EXCEPT !.wroteHeader = TRUE, !.status = code,
                    !.sentContentType = wr.contentType]

\* w.Write / fmt.Fprintf(w, ...): writes the header with 200 if none was.
Write(wr, chunk) ==
    LET w1 == WriteHeader(wr, StatusOK)
    IN  [w1 EXCEPT !.body = Append(@, chunk)]

\* w.Header().Set("Content-Type", v)
SetContentType(wr, v) == [wr EXCEPT !.contentType = v]

\* http.Error(w, msg, code)
HttpError(wr, chunk, code) ==
    Write(WriteHeader(SetContentType(wr, "text/plain; charset=utf-8"), code),
          chunk)

\* HandleSlowAPI answering with an error status
HandleSlowAPI_Fails(wr, t) ==
    Write(WriteHeader(wr, StatusInternalServerError),
          Text("Slow API response at", NoErr, t))

\* otelsetup.HandleSlowAPI(w, r), the clock reading t when it prints
HandleSlowAPI(wr, t) ==
    Write(WriteHeader(wr, StatusOK), Text("Slow API response at", NoErr, t))

\* SlowResult with the status left out of the composite literal (its zero value)
SlowResult_NoStatus(rec) == [status |-> 0, msg |-> rec.body]

\* slowResult{status: recorder.Code, msg: recorder.Body.String()}
SlowResult(rec) == [status |-> rec.status, msg |-> rec.body]

NoSlow == [status |-> 0, msg |-> <<>>]

\* Response with the Products field left out (a nil slice)
Response_NoProducts(prods, sl, procStatus) ==
    [Products |-> NilSlice, SlowStatus |-> sl.status, SlowMessage |-> sl.msg,
     ProcessStatus |-> procStatus]

\* Response{Products: products, SlowStatus: slow.status, SlowMessage: slow.msg,
\*          ProcessStatus: processStatus}
Response(prods, sl, procStatus) ==
    [Products |-> prods, SlowStatus |-> sl.status, SlowMessage |-> sl.msg,
     ProcessStatus |-> procStatus]

\* The json tags of Product
EncodeProduct(p) ==
    [id |-> p.ID, name |-> p.Name, quantity |-> p.Quantity, price |-> p.Price]

\* json.Marshal of a Response, by its json tags
EncodeResponse(resp) ==
    [products |->
        IF resp.Products.isNil
        THEN JsonNull
        ELSE [isNull |-> FALSE,
              items |-> [i \in 1..Len(resp.Products.elems) |->
                            EncodeProduct(resp.Products.elems[i])]],
     slow_status |-> resp.SlowStatus,
     slow_message |-> resp.SlowMessage,
     process_status |-> resp.ProcessStatus]

\* How json.NewEncoder(w).Encode(resp) may end: well, with a marshalling
\* error (nothing is written), or with an error of the write to the client.
EncodeOutcomes == {"ok", "marshal", "write"}

\* ------------------------------------------------------------------ state
VARIABLES
    DB,             \* the package's store handle: "nil" or "open"
    hpc,            \* hpc[r]: where request r's handler is
    gpc,            \* gpc[r]: where the goroutine the handler spawned is
    w,              \* w[r]: the request's http.ResponseWriter
    products,       \* products[r]: the handler's local `products`
    processStatus,  \* processStatus[r]: the handler's local `processStatus`
    recorder,       \* recorder[r]: the goroutine's httptest recorder
    slow,           \* slow[r]: the handler's local `slow`
    fetched,        \* fetched[r]: what GetAllProducts returned to request r
    log,            \* log[r]: the history of the request's handler
    mainPc,         \* where main is, or how the process ended
    tracer,         \* otelsetup's package variable `tracer`: "nil" or "set"
    listening,      \* whether the goroutine of main serves the port
    signalled,      \* whether a termination signal was delivered to the process
    rpc,            \* rpc[r]: where HandleRequest is for the r-th GET /
    rw,             \* rw[r]: that request's http.ResponseWriter
    rlog,           \* rlog[r]: the history of that request
    fin,            \* the store a single call of GetAllProducts finds
    fout            \* what that call returned

\* main and the process it runs in
mainVars == <<mainPc, tracer, listening, signalled>>

\* The GET / requests
rootVars == <<rpc, rw, rlog>>

\* The single call of GetAllProducts
fetchVars == <<fin, fout>>

\* The GET /products requests
productsVars ==
    <<hpc, gpc, w, products, processStatus, recorder, slow, fetched, log>>

\* All that a step of a GET /products request leaves alone
outside == <<mainVars, rootVars, fetchVars>>

vars == <<DB, productsVars, outside>>

\* A call of GetAllProducts that was not made / has not returned
NoCall == [products |-> NilSlice, err |-> NoErr, events |-> <<>>]

NoStore == [db |-> "nil", rows |-> <<>>, fault |-> NoFault]

\* The package before main runs and before any request
HandlersInit ==
    /\ DB = "nil"
    /\ hpc = [r \in Req |-> "idle"]
    /\ gpc = [r \in Req |-> "none"]
    /\ w = [r \in Req |-> NewWriter(0)]
    /\ products = [r \in Req |-> NilSlice]
    /\ processStatus = [r \in Req |-> ""]
    /\ recorder = [r \in Req |-> NewWriter(StatusOK)]
    /\ slow = [r \in Req |-> NoSlow]
    /\ fetched = [r \in Req |-> NilSlice]
    /\ log = [r \in Req |-> <<>>]
    /\ mainPc = "initDB"
    /\ tracer = "nil"
    /\ listening = FALSE
    /\ signalled = FALSE
    /\ rpc = [r \in Req |-> "idle"]
    /\ rw = [r \in Req |-> NewWriter(0)]
    /\ rlog = [r \in Req |-> <<>>]

Init ==
    /\ HandlersInit
    /\ fin = NoStore
    /\ fout = NoCall

\* ---------------------------------------------------------------- actions
Handler == "GetProductsHandler"

\* A step of a request other than those of its history
Note(ev, name) == Ev(ev, name, "", "", 0)

\* What happens when GetProductsHandler returns: its deferred span.End(), then
\* the otelhttp wrapper ends the span it started.
HandlerReturns == <<EndSpan(Handler), Return(Handler, NoErr), EndSpan(RootSpan)>>

\* The handler's error exit: http.Error(w, msg, code), then
\* span.SetAttributes(attribute.String("error", err.Error())), then return.
ErrorExit(r, prefix, err, code, events) ==
    /\ w' = [w EXCEPT ![r] = HttpError(@, Text(prefix, err, 0), code)]
    /\ log' = [log EXCEPT ![r] =
                  @ \o events \o <<SetAttrString(Handler, "error", err)>>
                    \o HandlerReturns]
    /\ hpc' = [hpc EXCEPT ![r] = "done"]

\* utils.InitDB: sql.Open fails (DB is set to nil), or the handle is stored and
\* the Ping fails or succeeds.
InitDB(outcome) ==
    /\ DB = "nil"
    /\ DB' = IF outcome = "openErr" THEN "nil" ELSE "open"
    /\ UNCHANGED <<outside, hpc, gpc, w, products, processStatus, recorder, slow, fetched,
                   log>>

\* A GET /products arrives: the otelhttp wrapper starts the request's span and
\* calls GetProductsHandler, which starts its own span from r.Context().
Arrive(r) ==
    /\ hpc[r] = "idle"
    /\ hpc' = [hpc EXCEPT ![r] = "validate"]
    /\ log' = [log EXCEPT ![r] =
                  <<StartSpan("", RootSpan), Call(Handler),
                    StartSpan(RootSpan, Handler)>>]
    /\ UNCHANGED <<outside, DB, gpc, w, products, processStatus, recorder, slow, fetched>>

\* ValidateRequest that tries again when validateRequest fails
ValidateRequest_Retry(r, fail) ==
    /\ hpc[r] = "validate"
    /\ LET v == validateRequest(RootSpan, fail)
       IN  /\ log' = [log EXCEPT ![r] = @ \o v.events]
           /\ hpc' = [hpc EXCEPT ![r] = IF v.err # NoErr THEN "validate" ELSE "fetch"]
    /\ UNCHANGED <<outside, DB, gpc, w, products, processStatus, recorder, slow, fetched>>

\* ValidateRequest with its `return` missing: after the 400 the handler goes on.
ValidateRequest_NoReturn(r, fail) ==
    /\ hpc[r] = "validate"
    /\ LET v == validateRequest(RootSpan, fail)
       IN  /\ w' = IF v.err # NoErr
                   THEN [w EXCEPT ![r] =
                            HttpError(@, Text("", v.err, 0), StatusBadRequest)]
                   ELSE w
           /\ log' = [log EXCEPT ![r] =
                         @ \o v.events \o
                           (IF v.err # NoErr
                            THEN <<SetAttrString(Handler, "error", v.err)>>
                            ELSE <<>>)]
    /\ hpc' = [hpc EXCEPT ![r] = "fetch"]
    /\ UNCHANGED <<outside, DB, gpc, products, processStatus, recorder, slow, fetched>>

\* Step 1: validateRequest(ctx); on error 400 and return.
ValidateRequest(r, fail) ==
    /\ hpc[r] = "validate"
    /\ LET v == validateRequest(RootSpan, fail)
       IN  IF v.err # NoErr
           THEN ErrorExit(r, "", v.err, StatusBadRequest, v.events)
           ELSE /\ hpc' = [hpc EXCEPT ![r] = "fetch"]
                /\ log' = [log EXCEPT ![r] = @ \o v.events]
                /\ w' = w
    /\ UNCHANGED <<outside, DB, gpc, products, processStatus, recorder, slow, fetched>>

\* FetchProducts with its `return` missing: after the 500 the handler goes on.
FetchProducts_NoReturn(r, rows, fault) ==
    /\ hpc[r] = "fetch"
    /\ LET f == GetAllProducts(RootSpan, DB, rows, fault)
       IN  /\ products' = [products EXCEPT ![r] = f.products]
           /\ fetched' = [fetched EXCEPT ![r] = f.products]
           /\ w' = IF f.err # NoErr
                   THEN [w EXCEPT ![r] =
                            HttpError(@, Text("Failed to fetch products: ", f.err, 0),
                                      StatusInternalServerError)]
                   ELSE w
           /\ log' = [log EXCEPT ![r] =
                         @ \o f.events \o
                           (IF f.err # NoErr
                            THEN <<SetAttrString(Handler, "error", f.err)>>
                            ELSE <<>>)]
    /\ hpc' = [hpc EXCEPT ![r] = "spawn"]
    /\ UNCHANGED <<outside, DB, gpc, processStatus, recorder, slow>>

\* FetchProducts storing its result in one `products` shared by every request
\* (a package-level variable, as DB is) instead of the handler's local.
FetchProducts_SharedProducts(r, rows, fault) ==
    /\ hpc[r] = "fetch"
    /\ LET f == GetAllProducts(RootSpan, DB, rows, fault)
       IN  /\ products' = [q \in Req |-> f.products]
           /\ fetched' = [fetched EXCEPT ![r] = f.products]
           /\ IF f.err # NoErr
              THEN ErrorExit(r, "Failed to fetch products: ", f.err,
                             StatusInternalServerError, f.events)
              ELSE /\ hpc' = [hpc EXCEPT ![r] = "spawn"]
                   /\ log' = [log EXCEPT ![r] = @ \o f.events]
                   /\ w' = w
    /\ UNCHANGED <<outside, DB, gpc, processStatus, recorder, slow>>

\* Step 2: products, err := GetAllProducts(ctx); on error 500 and return.
FetchProducts(r, rows, fault) ==
    /\ hpc[r] = "fetch"
    /\ LET f == GetAllProducts(RootSpan, DB, rows, fault)
       IN  /\ products' = [products EXCEPT ![r] = f.products]
           /\ fetched' = [fetched EXCEPT ![r] = f.products]
           /\ IF f.err # NoErr
              THEN ErrorExit(r, "Failed to fetch products: ", f.err,
                             StatusInternalServerError, f.events)
              ELSE /\ hpc' = [hpc EXCEPT ![r] = "spawn"]
                   /\ log' = [log EXCEPT ![r] = @ \o f.events]
                   /\ w' = w
    /\ UNCHANGED <<outside, DB, gpc, processStatus, recorder, slow>>

\* Step 3: slowChan := make(chan slowResult); go func() { ... }()
Spawn(r) ==
    /\ hpc[r] = "spawn"
    /\ hpc' = [hpc EXCEPT ![r] = "process"]
    /\ gpc' = [gpc EXCEPT ![r] = "call"]
    /\ log' = [log EXCEPT ![r] = Append(@, Note("go", "HandleSlowAPI"))]
    /\ UNCHANGED <<outside, DB, w, products, processStatus, recorder, slow, fetched>>

\* SlowAPI in a goroutine that ends without sending on slowChan
SlowAPI_NoSend(r, t) ==
    /\ gpc[r] = "call"
    /\ recorder' = [recorder EXCEPT ![r] = HandleSlowAPI(NewWriter(StatusOK), t)]
    /\ gpc' = [gpc EXCEPT ![r] = "done"]
    /\ UNCHANGED <<outside, DB, hpc, w, products, processStatus, slow, fetched, log>>

\* The goroutine: recorder := httptest.NewRecorder(); HandleSlowAPI(recorder, ...)
SlowAPI(r, t) ==
    /\ gpc[r] = "call"
    /\ recorder' = [recorder EXCEPT ![r] = HandleSlowAPI(NewWriter(StatusOK), t)]
    /\ gpc' = [gpc EXCEPT ![r] = "send"]
    /\ UNCHANGED <<outside, DB, hpc, w, products, processStatus, slow, fetched, log>>

\* ProcessData in a handler that does not wait for slowChan before responding
ProcessData_NoJoin(r, fail) ==
    /\ hpc[r] = "process"
    /\ LET p == processData(RootSpan, products[r], fail)
       IN  /\ processStatus' = [processStatus EXCEPT ![r] = p.status]
           /\ IF p.err # NoErr
              THEN ErrorExit(r, "Failed to process data: ", p.err,
                             StatusInternalServerError, p.events)
              ELSE /\ hpc' = [hpc EXCEPT ![r] = "respond"]
                   /\ log' = [log EXCEPT ![r] = @ \o p.events]
                   /\ w' = w
    /\ UNCHANGED <<outside, DB, gpc, products, recorder, slow, fetched>>

\* ProcessData with its `return` missing: after the 500 the handler goes on to
\* wait for the dependent call.
ProcessData_NoReturn(r, fail) ==
    /\ hpc[r] = "process"
    /\ LET p == processData(RootSpan, products[r], fail)
       IN  /\ processStatus' = [processStatus EXCEPT ![r] = p.status]
           /\ w' = IF p.err # NoErr
                   THEN [w EXCEPT ![r] =
                            HttpError(@, Text("Failed to process data: ", p.err, 0),
                                      StatusInternalServerError)]
                   ELSE w
           /\ log' = [log EXCEPT ![r] =
                         @ \o p.events \o
                           (IF p.err # NoErr
                            THEN <<SetAttrString(Handler, "error", p.err)>>
                            ELSE <<>>)
                           \o <<Note("wait", "slowChan")>>]
    /\ hpc' = [hpc EXCEPT ![r] = "recv"]
    /\ UNCHANGED <<outside, DB, gpc, products, recorder, slow, fetched>>

\* Step 4: processStatus, err := processData(ctx, products); on error 500 and
\* return, the goroutine left to itself.
ProcessData(r, fail) ==
    /\ hpc[r] = "process"
    /\ LET p == processData(RootSpan, products[r], fail)
       IN  /\ processStatus' = [processStatus EXCEPT ![r] = p.status]
           /\ IF p.err # NoErr
              THEN ErrorExit(r, "Failed to process data: ", p.err,
                             StatusInternalServerError, p.events)
              ELSE /\ hpc' = [hpc EXCEPT ![r] = "recv"]
                   /\ log' = [log EXCEPT ![r] =
                                 @ \o p.events \o <<Note("wait", "slowChan")>>]
                   /\ w' = w
    /\ UNCHANGED <<outside, DB, gpc, products, recorder, slow, fetched>>

\* Step 5: slowChan is unbuffered: the goroutine's send `slowChan <- ...` and the
\* handler's receive `slow := <-slowChan` happen together, when both are there.
Handoff(r) ==
    /\ gpc[r] = "send"
    /\ hpc[r] = "recv"
    /\ slow' = [slow EXCEPT ![r] = SlowResult(recorder[r])]
    /\ gpc' = [gpc EXCEPT ![r] = "done"]
    /\ hpc' = [hpc EXCEPT ![r] = "respond"]
    /\ log' = [log EXCEPT ![r] = Append(@, Note("recv", "slowChan"))]
    /\ UNCHANGED <<outside, DB, w, products, processStatus, recorder, fetched>>

\* The response: Content-Type, WriteHeader(200), Encode; if Encode fails,
\* SetAttributes and http.Error(..., 500), then return.
Respond(r, enc) ==
    /\ hpc[r] = "respond"
    /\ LET resp == Response(products[r], slow[r], processStatus[r])
           w1 == WriteHeader(SetContentType(w[r], "application/json"), StatusOK)
           w2 == IF enc = "marshal" THEN w1
                 ELSE Write(w1, Json(EncodeResponse(resp)))
       IN  IF enc = "ok"
           THEN /\ w' = [w EXCEPT ![r] = w2]
                /\ log' = [log EXCEPT ![r] =
                              @ \o <<Note("respond", Handler)>> \o HandlerReturns]
           ELSE /\ w' = [w EXCEPT ![r] =
                            HttpError(w2,
                                Text("Failed to encode response: ", ErrEncode, 0),
                                StatusInternalServerError)]
                /\ log' = [log EXCEPT ![r] =
                              @ \o <<Note("respond", Handler),
                                     SetAttrString(Handler, "error", ErrEncode)>>
                                \o HandlerReturns]
    /\ hpc' = [hpc EXCEPT ![r] = "done"]
    /\ UNCHANGED <<outside, DB, gpc, products, processStatus, recorder, slow, fetched>>

\* ---------------------------------------------------------- specifications
\* The handler's own steps and the goroutine's, for the fairness below.
HandlerStep(r) ==
    \/ \E fail \in FailDraws : ValidateRequest(r, fail)
    \/ \E rows \in Tables : \E fault \in Faults(rows) : FetchProducts(r, rows, fault)
    \/ Spawn(r)
    \/ \E fail \in FailDraws : ProcessData(r, fail)
    \/ Handoff(r)
    \/ \E enc \in EncodeOutcomes : Respond(r, enc)

GoStep(r) ==
    \/ \E t \in Times : SlowAPI(r, t)
    \/ Handoff(r)

Next ==
    \/ \E outcome \in {"openErr", "pingErr", "ok"} : InitDB(outcome)
    \/ \E r \in Req : Arrive(r)
    \/ \E r \in Req : \E fail \in FailDraws : ValidateRequest(r, fail)
    \/ \E r \in Req : \E rows \in Tables : \E fault \in Faults(rows) :
          FetchProducts(r, rows, fault)
    \/ \E r \in Req : Spawn(r)
    \/ \E r \in Req : \E t \in Times : SlowAPI(r, t)
    \/ \E r \in Req : \E fail \in FailDraws : ProcessData(r, fail)
    \/ \E r \in Req : Handoff(r)
    \/ \E r \in Req : \E enc \in EncodeOutcomes : Respond(r, enc)

Spec == Init /\ [][Next]_vars

\* The same requests, for the claims about how one request is built up (its
\* goroutine, its stage calls, its spans).
RequestSpec == Init /\ [][Next]_vars

\* Go runs runnable goroutines, and the sleeps and calls of the stages end:
\* while some handler or spawned goroutine can take a step, one of them does.
Progress == \E r \in Req : HandlerStep(r) \/ GoStep(r)

LiveSpec == Spec /\ WF_vars(Progress)

\* GET /products with the failure draws of validateRequest and processData
\* switched off, the store initialised by main before the server listens and
\* answering every query, and the client reading its whole response.
NoFailStep(r) ==
    \/ ValidateRequest(r, FALSE)
    \/ \E rows \in Tables : FetchProducts(r, rows, NoFault)
    \/ Spawn(r)
    \/ ProcessData(r, FALSE)
    \/ Handoff(r)
    \/ Respond(r, "ok")

\* main: the router serves only once utils.InitDB has returned nil.
ArriveServing(r) == DB = "open" /\ Arrive(r)

NoFailNext ==
    \/ InitDB("ok")
    \/ \E r \in Req : ArriveServing(r)
    \/ \E r \in Req : NoFailStep(r)
    \/ \E r \in Req : \E t \in Times : SlowAPI(r, t)
    \/ \E r \in Req : Handoff(r)

\* N requests are sent, and every goroutine that can run does.
NoFailSpec ==
    /\ Init /\ [][NoFailNext]_vars
    /\ WF_vars(InitDB("ok"))
    /\ \A r \in Req :
          WF_vars(ArriveServing(r)) /\ WF_vars(NoFailStep(r)) /\ WF_vars(GoStep(r))

\* ------------------------------------------------- reading the history
\* The places of request r's history where `name` did `ev`
At(r, ev, name) ==
    {i \in DOMAIN log[r] : log[r][i].ev = ev /\ log[r][i].name = name}

Called(r, name) == At(r, "call", name) # {}

\* The errors `name` returned to request r ("" for nil)
Returned(r, name) == {log[r][i].str : i \in At(r, "return", name)}

ValidationFailed(r) == ErrValidation \in Returned(r, "validateRequest")
FetchFailed(r) == Returned(r, "GetAllProducts") \ {NoErr} # {}
ProcessFailed(r) == Returned(r, "processData") \ {NoErr} # {}

\* HandleSlowAPI has been called for request r (in its goroutine)
SlowCalled(r) == gpc[r] \in {"send", "done"}

\* The JSON objects written to request r's response
JsonWritten(r) ==
    {w[r].body[i].json : i \in {j \in DOMAIN w[r].body : w[r].body[j].kind = "json"}}

\* ----------------------------------------------------------------- claims
\* C1: a request whose validateRequest returned an error is answered 400, and
\* in it GetAllProducts is never called, no goroutine is spawned for the
\* dependent call and processData is never called.
C1_ValidationFailureRejects ==
    \A r \in Req :
        ValidationFailed(r) =>
            /\ hpc[r] = "done"
            /\ w[r].wroteHeader /\ w[r].status = StatusBadRequest
            /\ ~Called(r, "GetAllProducts")
            /\ At(r, "go", "HandleSlowAPI") = {} /\ gpc[r] = "none"
            /\ ~SlowCalled(r)
            /\ ~Called(r, "processData")

C1_Witness ==
    \E r \in Req : ValidationFailed(r) /\ hpc[r] = "done" /\ DB = "open"

\* C2: a request whose GetAllProducts or processData returned an error is
\* answered 500 with the plain-text error message as its whole body: no JSON
\* object is written in it.
C2_FailureIs500PlainText ==
    \A r \in Req :
        /\ FetchFailed(r) =>
              /\ w[r].status = StatusInternalServerError
              /\ \E e \in Returned(r, "GetAllProducts") :
                    w[r].body = <<Text("Failed to fetch products: ", e, 0)>>
        /\ ProcessFailed(r) =>
              /\ w[r].status = StatusInternalServerError
              /\ \E e \in Returned(r, "processData") :
                    w[r].body = <<Text("Failed to process data: ", e, 0)>>
        /\ (FetchFailed(r) \/ ProcessFailed(r)) =>
              /\ JsonWritten(r) = {}
              /\ w[r].sentContentType = "text/plain; charset=utf-8"

C2_Witness ==
    /\ \E r \in Req : FetchFailed(r) /\ DB = "open"
    /\ \E r \in Req : ProcessFailed(r) /\ hpc[r] = "done"

\* C3: when processData fails the handler answers 500 without waiting for the
\* dependent call, and the goroutine it spawned still runs to its end: it is
\* done, or it can take a step (it is not blocked for ever on slowChan).
C3_AbandonedCallTerminates ==
    \A r \in Req :
        (ProcessFailed(r) /\ hpc[r] = "done") =>
            /\ w[r].status = StatusInternalServerError
            /\ gpc[r] = "done" \/ ENABLED GoStep(r)

\* The spans of the three stages
StageSpans == {"validateRequest", "GetAllProducts", "processData"}

\* C4: each stage span is ended exactly once whichever way its stage returned,
\* and before the GetProductsHandler span is ended.
C4_StageSpansEndedOnce ==
    \A r \in Req : \A name \in StageSpans :
        At(r, "return", name) # {} =>
            /\ Cardinality(At(r, "End", name)) = 1
            /\ \A i \in At(r, "End", name) : \A j \in At(r, "End", Handler) : i < j

\* Request r has ended with one of the three statuses
Ended(r) ==
    /\ hpc[r] = "done"
    /\ w[r].wroteHeader
    /\ w[r].status \in {StatusOK, StatusBadRequest, StatusInternalServerError}

\* C5: every request that has arrived eventually ends, answered 200, 400 or
\* 500 (so none stays in Joining for ever), and once it has ended its outcome
\* no longer changes.  Stated as: a request that has arrived never goes back
\* to idle and one that has ended keeps its status; and again and again every
\* request is either still to arrive or ended with one of the three statuses.
C5_EveryRequestTerminates ==
    /\ []<>(\A r \in Req : hpc[r] = "idle" \/ Ended(r))
    /\ [][\A r \in Req :
             /\ hpc[r] # "idle" => hpc'[r] # "idle"
             /\ hpc[r] = "done" =>
                   hpc'[r] = "done" /\ w'[r].status = w[r].status]_vars

C5_Witness ==
    \E r \in Req :
        /\ hpc[r] = "done" /\ w[r].status = StatusOK
        /\ At(r, "wait", "slowChan") # {} /\ At(r, "recv", "slowChan") # {}

\* Every place of js comes after some place of is
Before(r, is, js) == \A j \in js : \E i \in is : i < j

\* C6: GetAllProducts has returned (without error) before the goroutine is
\* spawned, before HandleSlowAPI and before processData start; processData has
\* returned before the handler waits on slowChan; the response is assembled
\* only after processData returned nil and the dependent result was received.
C6_StageOrder ==
    \A r \in Req :
        LET fetchOk == {i \in At(r, "return", "GetAllProducts") :
                            log[r][i].str = NoErr}
            procOk == {i \in At(r, "return", "processData") :
                            log[r][i].str = NoErr}
        IN  /\ Before(r, fetchOk, At(r, "go", "HandleSlowAPI"))
            /\ gpc[r] # "none" => fetchOk # {} /\ At(r, "go", "HandleSlowAPI") # {}
            /\ Before(r, fetchOk, At(r, "call", "processData"))
            /\ Before(r, At(r, "return", "processData"), At(r, "wait", "slowChan"))
            /\ Before(r, procOk, At(r, "respond", Handler))
            /\ Before(r, At(r, "recv", "slowChan"), At(r, "respond", Handler))
            /\ hpc[r] = "recv" => procOk # {}
            /\ JsonWritten(r) # {} => At(r, "respond", Handler) # {}

C6_Witness ==
    \E r \in Req :
        /\ At(r, "respond", Handler) # {} /\ hpc[r] = "done"
        /\ gpc[r] = "done"

\* C7: in a response answered 200 the products field holds exactly what that
\* request's GetAllProducts returned, in its order (null for the nil slice of
\* an empty table), and process_status is "success" just when processData
\* returned nil and "failed" just when it returned an error.
C7_ProductsAndProcessStatus ==
    \A r \in Req : \A j \in JsonWritten(r) :
        w[r].status = StatusOK =>
            /\ j.products.items =
                  [i \in 1..Len(fetched[r].elems) |->
                      EncodeProduct(fetched[r].elems[i])]
            /\ j.products.isNull = fetched[r].isNil
            /\ (j.process_status = "success") <=>
                  (Returned(r, "processData") = {NoErr})
            /\ (j.process_status = "failed") <=> ProcessFailed(r)

C7_Witness ==
    \E r \in Req :
        /\ hpc[r] = "done" /\ w[r].status = StatusOK
        /\ \E j \in JsonWritten(r) :
              Len(j.products.items) = MaxRows /\ j.process_status = "success"

\* C8: in a response answered 200, slow_status and slow_message are the code
\* and the body HandleSlowAPI wrote to that request's own recorder.
C8_SlowResultRoundTrip ==
    \A r \in Req : \A j \in JsonWritten(r) :
        w[r].status = StatusOK =>
            /\ j.slow_status = recorder[r].status
            /\ j.slow_message = recorder[r].body
            /\ \E t \in Times :
                  recorder[r] = HandleSlowAPI(NewWriter(StatusOK), t)

C8_Witness ==
    \E r, q \in Req :
        /\ r # q
        /\ hpc[r] = "done" /\ hpc[q] = "done"
        /\ \E j \in JsonWritten(r) : \E k \in JsonWritten(q) :
              j.slow_message # k.slow_message /\ j.slow_message # <<>>

\* The body made of request r's own fetch and its own recorder
OwnResponse(r) ==
    Json(EncodeResponse(Response(fetched[r], SlowResult(recorder[r]), "success")))

\* C9: with the failure draws off, N concurrent requests all end answered 200,
\* whatever the interleaving, and the body of each is the JSON of its own
\* fetch and of its own goroutine's recorder.
C9_ConcurrentRequestsIndependent ==
    /\ <>[](\A r \in Req : hpc[r] = "done" /\ w[r].status = StatusOK)
    /\ [](\A r \in Req :
            hpc[r] = "done" =>
                /\ w[r].status = StatusOK
                /\ w[r].body = <<OwnResponse(r)>>
                /\ At(r, "return", "GetAllProducts") # {}
                /\ gpc[r] = "done")

C9_Witness ==
    \E r, q \in Req :
        /\ hpc[r] = "done" /\ hpc[q] = "done"
        /\ fetched[r] # fetched[q]
        /\ recorder[r].body # recorder[q].body
        /\ w[r].body # w[q].body

\* Encode returned an error in request r
EncodeFailed(r) ==
    \E i \in DOMAIN log[r] : log[r][i] = SetAttrString(Handler, "error", ErrEncode)

\* C10: when encoding the response fails, after WriteHeader(200), the status
\* of the response is 500.
C10_EncodeFailureIs500 ==
    \A r \in Req : EncodeFailed(r) => w[r].status = StatusInternalServerError

\* GetAllProducts was called in request r while DB was nil
CalledWithNilDB(r) ==
    \E i \in At(r, "call", "GetAllProducts") : log[r][i].str = "nil"

\* C11: GetAllProducts called while DB is nil returns the not-initialized
\* error (it does not panic) and never queries the store; the request ends
\* with 500 and that message in its body, and spawns no goroutine.
C11_UninitializedStoreIs500 ==
    \A r \in Req :
        CalledWithNilDB(r) =>
            /\ Returned(r, "GetAllProducts") = {ErrNotInitialized}
            /\ At(r, "panic", "GetAllProducts") = {}
            /\ At(r, "query", "DB") = {}
            /\ fetched[r] = NilSlice
            /\ hpc[r] = "done"
            /\ w[r].status = StatusInternalServerError
            /\ w[r].body = <<Text("Failed to fetch products: ", ErrNotInitialized, 0)>>
            /\ At(r, "go", "HandleSlowAPI") = {} /\ gpc[r] = "none"

C11_Witness ==
    \E r \in Req : CalledWithNilDB(r) /\ hpc[r] = "done" /\ DB = "open"

\* C13: a request that reaches the concurrent stage spawns exactly one
\* goroutine, and at most one message passes through its slowChan (one just
\* when the goroutine has ended); a request rejected with 400 or failed by the
\* fetch spawns none.
C13_OneGoroutinePerRequest ==
    \A r \in Req :
        LET spawned == Cardinality(At(r, "go", "HandleSlowAPI"))
            received == Cardinality(At(r, "recv", "slowChan"))
        IN  /\ (ValidationFailed(r) \/ FetchFailed(r)) =>
                  spawned = 0 /\ gpc[r] = "none" /\ received = 0
            /\ (Called(r, "processData") \/ hpc[r] = "process") => spawned = 1
            /\ gpc[r] # "none" <=> spawned = 1
            /\ spawned <= 1
            /\ received <= 1
            /\ gpc[r] = "done" <=> received = 1

C13_Witness ==
    \E r, q \in Req :
        /\ hpc[r] = "done" /\ gpc[r] = "done" /\ w[r].status = StatusOK
        /\ hpc[q] = "done" /\ FetchFailed(q) /\ ~CalledWithNilDB(q)

\* The calls of stages and the go statement
Starting == {"call", "go"}

\* The places of request r's history where a stage returned an error
ErrorReturns(r) ==
    {i \in DOMAIN log[r] :
        /\ log[r][i].ev = "return"
        /\ log[r][i].name \in StageSpans
        /\ log[r][i].str # NoErr}

\* C14: in one request validateRequest, GetAllProducts, the dependent call and
\* processData are each started at most once, and once a stage has returned an
\* error the handler starts nothing more: it returns.
C14_NoRetryFirstErrorEnds ==
    \A r \in Req :
        LET errs == ErrorReturns(r)
        IN  /\ \A name \in StageSpans : Cardinality(At(r, "call", name)) <= 1
            /\ Cardinality(At(r, "go", "HandleSlowAPI")) <= 1
            /\ Cardinality(errs) <= 1
            /\ errs # {} =>
                  /\ hpc[r] = "done"
                  /\ At(r, "wait", "slowChan") = {}
                  /\ At(r, "respond", Handler) = {}
                  /\ \A i \in errs : \A j \in i + 1..Len(log[r]) :
                        log[r][j].ev \notin Starting

C14_Witness ==
    \E r, q \in Req :
        /\ ProcessFailed(r) /\ gpc[r] = "send"
        /\ ValidationFailed(q)

\* The places of request r's history where a span is started
Starts(r) == {i \in DOMAIN log[r] : log[r][i].ev = "Start"}

\* The places of request r's history where a span is ended
Ends(r) == {i \in DOMAIN log[r] : log[r][i].ev = "End"}

\* C16: the stage spans of a request are children of the request's root span
\* (the one of the otelhttp wrapper, which r.Context() carries); the request
\* has exactly one root span; every span's parent was started before it in the
\* same request; when GetProductsHandler returns every span started in it is
\* ended, and when the request is over the root span is too.
C16_SpanTree ==
    \A r \in Req :
        LET L == log[r]
            starts == Starts(r)
            ends == Ends(r)
            returns == At(r, "return", Handler)
            EndedBetween(i, k) ==
                \E j \in ends : L[j].name = L[i].name /\ i < j /\ j < k
        IN  /\ hpc[r] # "idle" =>
                  Cardinality({i \in starts : L[i].name = RootSpan}) = 1
            /\ \A i \in starts :
                  /\ L[i].name \in StageSpans => L[i].str = RootSpan
                  /\ L[i].str = "" <=> L[i].name = RootSpan
                  /\ L[i].str # "" =>
                        \E k \in starts : k < i /\ L[k].name = L[i].str
                  /\ L[i].name # RootSpan =>
                        \A k \in returns : EndedBetween(i, k)
                  /\ hpc[r] = "done" => EndedBetween(i, Len(L) + 1)

C16_Witness ==
    \E r \in Req :
        /\ hpc[r] = "done"
        /\ \A name \in StageSpans : At(r, "Start", name) # {}

\* C17: the dependent call always answers 200: the recorder of every goroutine
\* that called HandleSlowAPI holds code 200, and slow_status is 200 in every
\* response answered 200.
C17_SlowStatusIs200 ==
    \A r \in Req :
        /\ SlowCalled(r) =>
              recorder[r].wroteHeader /\ recorder[r].status = StatusOK
        /\ \A j \in JsonWritten(r) :
              w[r].status = StatusOK => j.slow_status = StatusOK

C17_Witness ==
    \E r \in Req :
        /\ hpc[r] = "done" /\ w[r].status = StatusOK
        /\ \E j \in JsonWritten(r) : j.slow_status = StatusOK

\* ------------------------------------------------------------------ main
\* How utils.InitDB and otelsetup.InitProvider may end
InitDBOutcomes == {"openErr", "pingErr", "ok"}

\* main: utils.InitDB(...); on an error main prints it and returns.
MainInitDB(outcome) ==
    /\ mainPc = "initDB"
    /\ DB' = IF outcome = "openErr" THEN "nil" ELSE "open"
    /\ mainPc' = IF outcome = "ok" THEN "initProvider" ELSE "exited"
    /\ UNCHANGED <<productsVars, tracer, listening, signalled, rootVars, fetchVars>>

\* main: otelsetup.InitProvider(), which sets `tracer` and returns the
\* provider's Shutdown; on an error log.Fatalf ends the process.
MainInitProvider(ok) ==
    /\ mainPc = "initProvider"
    /\ tracer' = IF ok THEN "set" ELSE tracer
    /\ mainPc' = IF ok THEN "listen" ELSE "exited"
    /\ UNCHANGED <<DB, productsVars, listening, signalled, rootVars, fetchVars>>

\* main: the router, the otelhttp wrapper, the server, `go func() {...}()`;
\* main then stands at `<-make(chan struct{})`.
MainListen ==
    /\ mainPc = "listen"
    /\ mainPc' = "wait"
    /\ UNCHANGED <<DB, productsVars, tracer, listening, signalled, rootVars,
                   fetchVars>>

\* The goroutine of main: server.ListenAndServe() serves the port, or returns
\* an error and log.Fatalf ends the process.
ListenAndServe(ok) ==
    /\ mainPc = "wait"
    /\ ~listening
    /\ listening' = ok
    /\ mainPc' = IF ok THEN mainPc ELSE "exited"
    /\ UNCHANGED <<DB, productsVars, tracer, signalled, rootVars, fetchVars>>

\* The server takes requests: main got as far as ListenAndServe.
Serving == mainPc = "wait" /\ listening

\* A termination signal (SIGINT, SIGTERM) is delivered to the running server.
\* The program never calls signal.Notify, so the Go runtime's default applies:
\* the process ends there, whatever main and the handlers were doing.
Signal ==
    /\ Serving
    /\ signalled' = TRUE
    /\ listening' = FALSE
    /\ mainPc' = "killed"
    /\ UNCHANGED <<DB, productsVars, tracer, rootVars, fetchVars>>

\* The goroutines that send on, or close, the channel main receives from: the
\* channel is made in the receive expression itself, so no one else has it.
Senders == {}

\* main past its receive: context.WithTimeout(..., 5*time.Second) and
\* shutdown(ctx).  The receive needs a sender.
MainShutdown ==
    /\ mainPc = "wait"
    /\ Senders # {}
    /\ mainPc' = "shutdown"
    /\ UNCHANGED <<DB, productsVars, tracer, listening, signalled, rootVars,
                   fetchVars>>

\* ------------------------------------------------------------------ GET /
\* What time.Now().UnixNano() may read
MaxNano == 10
Nanos == 0..MaxNano

ErrDatabase == "database connection error"
ErrDo == "<client error>"
ErrRead == "<read error>"

\* How the request to httpbin.org may end: client.Do fails, io.ReadAll fails,
\* or the body is read.
ExternalOutcomes == {"doErr", "readErr", "ok"}

\* span.RecordError(err); span.SetStatus(codes.Error, err.Error())
RecordError(name, err) ==
    <<Ev("RecordError", name, "", err, 0), Ev("SetStatus", name, "Error", err, 0)>>

\* otelsetup.DatabaseCall(ctx) when the clock reads n after its sleep
DatabaseCall(ctxSpan, n) ==
    LET name == "database.query"
        start == <<Call("DatabaseCall"), StartSpan(ctxSpan, name)>>
    IN  IF n % 10 = 0
        THEN [err |-> ErrDatabase,
              events |-> start \o RecordError(name, ErrDatabase)
                           \o <<EndSpan(name), Return("DatabaseCall", ErrDatabase)>>]
        ELSE [err |-> NoErr,
              events |-> start \o <<EndSpan(name), Return("DatabaseCall", NoErr)>>]

\* otelsetup.ExternalAPICall(ctx) when the request ends as `outcome`
ExternalAPICall(ctxSpan, outcome) ==
    LET name == "external.api.request"
        start == <<Call("ExternalAPICall"), StartSpan(ctxSpan, name),
                   Ev("Do", "client", "", "", 0)>>
        fail(err) ==
            [err |-> err,
             events |-> start \o RecordError(name, err)
                          \o <<EndSpan(name), Return("ExternalAPICall", err)>>]
    IN  IF outcome = "doErr" THEN fail(ErrDo)
        ELSE IF outcome = "readErr" THEN fail(ErrRead)
        ELSE [err |-> NoErr,
              events |-> start \o <<EndSpan(name), Return("ExternalAPICall", NoErr)>>]

\* A call of w.WriteHeader(code) by HandleRequest (http.Error makes one)
HeaderCall(code) == Ev("WriteHeader", "HandleRequest", "", "", code)

\* HandleRequest returns, and the otelhttp wrapper ends its span.
RequestReturns == <<Return("HandleRequest", NoErr), EndSpan(RootSpan)>>

\* A GET / arrives: the otelhttp wrapper starts the request's span and the
\* router calls otelsetup.HandleRequest.
ArriveRoot(r) ==
    /\ Serving
    /\ rpc[r] = "idle"
    /\ rpc' = [rpc EXCEPT ![r] = "database"]
    /\ rlog' = [rlog EXCEPT ![r] = <<StartSpan("", RootSpan), Call("HandleRequest")>>]
    /\ UNCHANGED <<DB, productsVars, mainVars, rw, fetchVars>>

\* HandleRequest's error exit: http.Error(w, msg, 500); return.
RootErrorExit(r, prefix, err, events) ==
    /\ rw' = [rw EXCEPT ![r] =
                 HttpError(@, Text(prefix, err, 0), StatusInternalServerError)]
    /\ rlog' = [rlog EXCEPT ![r] =
                   @ \o events \o <<HeaderCall(StatusInternalServerError)>>
                     \o RequestReturns]
    /\ rpc' = [rpc EXCEPT ![r] = "done"]

\* RunDatabaseCall with its `return` missing: after the 500 the handler goes on.
RunDatabaseCall_NoReturn(r, n) ==
    /\ Serving
    /\ rpc[r] = "database"
    /\ LET d == DatabaseCall(RootSpan, n)
       IN  /\ rw' = IF d.err # NoErr
                    THEN [rw EXCEPT ![r] =
                             HttpError(@, Text("Database error: ", d.err, 0),
                                       StatusInternalServerError)]
                    ELSE rw
           /\ rlog' = [rlog EXCEPT ![r] =
                          @ \o d.events \o
                            (IF d.err # NoErr
                             THEN <<HeaderCall(StatusInternalServerError)>>
                             ELSE <<>>)]
    /\ rpc' = [rpc EXCEPT ![r] = "external"]
    /\ UNCHANGED <<DB, productsVars, mainVars, fetchVars>>

\* HandleRequest: `if err := DatabaseCall(ctx); err != nil { ...; return }`
RunDatabaseCall(r, n) ==
    /\ Serving
    /\ rpc[r] = "database"
    /\ LET d == DatabaseCall(RootSpan, n)
       IN  IF d.err # NoErr
           THEN RootErrorExit(r, "Database error: ", d.err, d.events)
           ELSE /\ rlog' = [rlog EXCEPT ![r] = @ \o d.events]
                /\ rpc' = [rpc EXCEPT ![r] = "external"]
                /\ UNCHANGED rw
    /\ UNCHANGED <<DB, productsVars, mainVars, fetchVars>>

\* HandleRequest: `if err := ExternalAPICall(ctx); err != nil { ...; return }`
RunExternalAPICall(r, outcome) ==
    /\ Serving
    /\ rpc[r] = "external"
    /\ LET x == ExternalAPICall(RootSpan, outcome)
       IN  IF x.err # NoErr
           THEN RootErrorExit(r, "External API error: ", x.err, x.events)
           ELSE /\ rlog' = [rlog EXCEPT ![r] = @ \o x.events]
                /\ rpc' = [rpc EXCEPT ![r] = "write"]
                /\ UNCHANGED rw
    /\ UNCHANGED <<DB, productsVars, mainVars, fetchVars>>

\* HandleRequest: w.WriteHeader(http.StatusOK); fmt.Fprintf(w, ...) when the
\* clock reads t; return.
WriteSuccess(r, t) ==
    /\ Serving
    /\ rpc[r] = "write"
    /\ rw' = [rw EXCEPT ![r] =
                 Write(WriteHeader(@, StatusOK),
                       Text("Request processed successfully at ", NoErr, t))]
    /\ rlog' = [rlog EXCEPT ![r] =
                   @ \o <<HeaderCall(StatusOK)>> \o RequestReturns]
    /\ rpc' = [rpc EXCEPT ![r] = "done"]
    /\ UNCHANGED <<DB, productsVars, mainVars, fetchVars>>

\* main from its start, the signals the process may get and the GET /
\* requests the server takes.
ServerNext ==
    \/ \E outcome \in InitDBOutcomes : MainInitDB(outcome)
    \/ \E ok \in BOOLEAN : MainInitProvider(ok)
    \/ MainListen
    \/ \E ok \in BOOLEAN : ListenAndServe(ok)
    \/ Signal
    \/ \E r \in Req : ArriveRoot(r)
    \/ \E r \in Req : \E n \in Nanos : RunDatabaseCall(r, n)
    \/ \E r \in Req : \E outcome \in ExternalOutcomes : RunExternalAPICall(r, outcome)
    \/ \E r \in Req : \E t \in Times : WriteSuccess(r, t)

ServerSpec == Init /\ [][ServerNext]_vars

\* C12: once a termination signal has arrived, main calls the tracer
\* provider's shutdown (with its 5-second bound), or is able to: the shutdown
\* step is reachable from the running state.
C12_SignalLeadsToShutdown ==
    signalled => (mainPc = "shutdown" \/ ENABLED MainShutdown)

\* The places of GET / request r's history where `name` did `ev`
RootAt(r, ev, name) ==
    {i \in DOMAIN rlog[r] : rlog[r][i].ev = ev /\ rlog[r][i].name = name}

\* The errors `name` returned to GET / request r ("" for nil)
RootReturned(r, name) == {rlog[r][i].str : i \in RootAt(r, "return", name)}

RootFailed(r, name) == \E err \in RootReturned(r, name) : err # NoErr

\* C18: in HandleRequest DatabaseCall runs before ExternalAPICall; when
\* DatabaseCall fails the response is 500 and ExternalAPICall is not called;
\* when ExternalAPICall fails the response is 500; 200 is written only when
\* both returned nil; every request writes exactly one status.
C18_RootHandlerOrderAndStatus ==
    \A r \in Req :
        /\ \A j \in RootAt(r, "call", "ExternalAPICall") :
              \E i \in RootAt(r, "return", "DatabaseCall") :
                  i < j /\ rlog[r][i].str = NoErr
        /\ RootFailed(r, "DatabaseCall") =>
              /\ RootAt(r, "call", "ExternalAPICall") = {}
              /\ rpc[r] = "done"
              /\ rw[r].status = StatusInternalServerError
              /\ rw[r].body = <<Text("Database error: ", ErrDatabase, 0)>>
        /\ RootFailed(r, "ExternalAPICall") =>
              /\ rpc[r] = "done"
              /\ rw[r].status = StatusInternalServerError
              /\ Len(rw[r].body) = 1
              /\ rw[r].body[1].prefix = "External API error: "
        /\ rw[r].status = StatusOK =>
              /\ RootReturned(r, "DatabaseCall") = {NoErr}
              /\ RootReturned(r, "ExternalAPICall") = {NoErr}
        /\ Cardinality(RootAt(r, "WriteHeader", "HandleRequest")) <= 1
        /\ \A i \in RootAt(r, "WriteHeader", "HandleRequest") :
              rw[r].wroteHeader /\ rw[r].status = rlog[r][i].n
        /\ rpc[r] = "done" <=> RootAt(r, "WriteHeader", "HandleRequest") # {}
        /\ rpc[r] = "done" <=> rw[r].wroteHeader

C18_Witness ==
    \E r, q \in Req :
        /\ RootFailed(r, "DatabaseCall") /\ rpc[r] = "done"
        /\ rw[q].status = StatusOK /\ rpc[q] = "done"

\* ------------------------------------------------- one call of the fetch
\* The rows the products table may hold, in any order and number up to MaxRows
RowSet == {AllRows[i] : i \in 1..Len(AllRows)}

RowSeqs == UNION {[1..k -> RowSet] : k \in 0..MaxRows}

\* The stores a call of GetAllProducts may find: the handle, the table and
\* what goes wrong while it is read.
Stores ==
    UNION {{[db |-> db, rows |-> rows, fault |-> fault] :
               db \in {"nil", "open"}, fault \in Faults(rows)} :
           rows \in RowSeqs}

FetchInit ==
    /\ HandlersInit
    /\ fin \in Stores
    /\ fout = NoCall

\* products, err := GetAllProducts(ctx), with a ctx that carries no span
CallGetAllProducts ==
    /\ fout = NoCall
    /\ fout' = GetAllProducts("", fin.db, fin.rows, fin.fault)
    /\ UNCHANGED <<DB, productsVars, mainVars, rootVars, fin>>

FetchNext == CallGetAllProducts

FetchSpec == FetchInit /\ [][FetchNext]_vars

\* The product_count values the call set on its span
ProductCounts ==
    {fout.events[i].n :
        i \in {k \in DOMAIN fout.events :
                  /\ fout.events[k].ev = "SetAttr"
                  /\ fout.events[k].key = "product_count"}}

\* C15: GetAllProducts returns no partial results: when the scan of a row or
\* the cursor fails it returns an error and the nil slice, however many rows
\* were scanned before; a non-nil slice is returned only with a nil error, and
\* then it holds every row of the table, scanned in order, and product_count
\* is its length.
C15_NoPartialResults ==
    fout # NoCall =>
        /\ (fin.db = "open" /\ fin.fault.kind = "scan") =>
              fout.err = ErrScan /\ fout.products = NilSlice
        /\ (fin.db = "open" /\ fin.fault.kind = "iter") =>
              fout.err = ErrIter /\ fout.products = NilSlice
        /\ fout.err # NoErr => fout.products = NilSlice /\ ProductCounts = {}
        /\ ~fout.products.isNil =>
              /\ fout.err = NoErr
              /\ fin.fault = NoFault
        /\ fout.err = NoErr =>
              /\ fout.products.elems =
                    [i \in 1..Len(fin.rows) |-> Scan(fin.rows[i])]
              /\ ProductCounts = {Len(fout.products.elems)}

C15_Witness ==
    /\ fout # NoCall
    /\ fin.db = "open"
    /\ fin.fault.kind = "scan"
    /\ fin.fault.at > 1
    /\ fout.err = ErrScan

====
